---- MODULE Spec2Model ----
(***************************************************************************)
(* Model of the meet-transcriber capture pipeline.                         *)
(*                                                                         *)
(*   offscreen document  (entrypoints/offscreen/main.ts): capture state,   *)
(*       recording cycles, processAudioBlob, start / stop handlers         *)
(*   background worker   (entrypoints/background.ts): popup requests,      *)
(*       forwarding of offscreen messages to the content script            *)
(*   transcript panel    (components/TranscriptPanel.tsx): the sink        *)
(*                                                                         *)
(* Every await of the code is a suspension point: a handler is modelled    *)
(* as one action per synchronous stretch between two awaits.  Objects the  *)
(* browser owns (MediaRecorder, timers, streams, audio contexts) are kept  *)
(* in the sequences recs / res and the set timers; a module-level `let' of *)
(* the code holds the index of the object it references, 0 for null.       *)
(***************************************************************************)
EXTENDS Integers, Sequences, FiniteSets, TLC

\* ---------------------------------------------------------------- bounds
MaxStarts == 2      \* start requests
MaxStops  == 2      \* stop requests
MaxCycles == 3      \* MediaRecorder objects created (recording cycles), Spec
SysMaxCycles == 2   \* the same, SpecSys
SysMaxStops == 1    \* stop requests, SpecSys

\* ------------------------------------------------------------- constants
MinAudioSize == 5000

MaxRequests == 4    \* requests of one call of the retrying client
MaxSegments == 2    \* segments of a response
MaxKeyLen == 3      \* characters of the key handed to validateApiKey

\* ------------------------------------------------------------- constants
\* no_speech_prob and avg_logprob are counted in hundredths
NO_SPEECH_THRESHOLD == 50
AVG_LOGPROB_THRESHOLD == -50
MAX_RETRIES == 3
INITIAL_RETRY_DELAY == 1000

\* milliseconds after which the timer of a recording cycle fires
RECORDING_DURATION_MS == 3000

\* ---------------------------------------------------------------- inputs
\* tabs.query result: 0 = no active tab, 1 and 2 are Meet tabs, 3 is a tab
\* whose url is not meet.google.com
QueryResults == 0..3
IsMeetTab(t) == t \in 1..2

\* settings snapshots read by the background at start; chunkDuration is
\* 3000 by default
Configs ==
  { [apiKey |-> "k1", language |-> "zh", includeMicrophone |-> FALSE, label |-> "",
     chunkDuration |-> 3000],
    [apiKey |-> "k1", language |-> "",   includeMicrophone |-> TRUE,  label |-> "",
     chunkDuration |-> 3000],
    [apiKey |-> "k2", language |-> "en", includeMicrophone |-> TRUE,  label |-> "usb",
     chunkDuration |-> 5000],
    [apiKey |-> "",   language |-> "zh", includeMicrophone |-> FALSE, label |-> "",
     chunkDuration |-> 3000] }

\* size of the data a recorder hands over in its dataavailable event
DataSizes == {0, 4999, 5000}

\* what transcribeAudio resolves to: a result with text, a result whose text
\* is empty, an error whose code is 401, any other error
Outcomes == {"text", "empty", "unauthorized", "error"}

VARIABLES
  \* offscreen/main.ts module state
  mediaRecorder, tabStream, micStream, mixingContext, playbackContext,
  streamToRecord, apiKey, language, sequenceNumber, isCapturing,
  recordingTimer, currentChunks,
  \* browser objects of the offscreen document
  recs,        \* MediaRecorder objects, in creation order
  timers,      \* pending setTimeout ids
  res,         \* streams and audio contexts, in acquisition order
  starts,      \* invocations of handleStartCapture, in call order
  calls,       \* processAudioBlob invocations awaiting transcribeAudio
  \* message channel offscreen -> background
  toBg,
  \* background.ts state
  bgIsCapturing, currentTabId, bgProcs, lastResponse, nStart, nStop,
  \* sink
  sinkLog,     \* TRANSCRIPT_RESULT messages forwarded to a tab, in order
  transcripts, \* TranscriptPanel state of each tab
  \* the language argument of the transcription calls
  callLanguage,
  \* one call of the retrying transcribeAudio (lib/groq)
  retryForm,   \* the form data of its last request
  attempt, lastError,
  retryPc,     \* "idle", "fetch", "sleep", "done"
  fetched,     \* the responses of its requests, in order
  slept,       \* the delays it has waited, in order
  retryResponse,
  \* one call of transcribeAudio (lib/transcription)
  simplePc,    \* "idle", "fetch", "done"
  simpleForm,  \* the form data of its request
  simpleResponse, validSegments, simpleResult,
  \* one call of validateApiKey (lib/groq)
  probePc,     \* "idle", "call", "fetch", "done"
  probeKey,    \* its argument, a sequence of characters
  probeFetched, \* the responses of its requests, in order
  probeResult

offVars == <<mediaRecorder, tabStream, micStream, mixingContext, playbackContext,
             streamToRecord, apiKey, language, sequenceNumber, isCapturing,
             recordingTimer, currentChunks>>
envVars == <<recs, timers, res, starts, calls>>
bgVars  == <<bgIsCapturing, currentTabId, bgProcs, lastResponse, nStart, nStop>>
sinkVars == <<sinkLog, transcripts>>
retryVars == <<retryForm, attempt, lastError, retryPc, fetched, slept, retryResponse>>
simpleVars == <<simplePc, simpleForm, simpleResponse, validSegments, simpleResult>>
probeVars == <<probePc, probeKey, probeFetched, probeResult>>
clientVars == <<callLanguage, retryVars, simpleVars, probeVars>>
captureVars == <<offVars, envVars, toBg, bgVars, sinkVars>>
vars == <<captureVars, clientVars>>

\* ------------------------------------------------------------ messages
OffMsg(type) ==
  [type |-> type, seq |-> 0, win |-> 0, sess |-> 0, k |-> 0, late |-> FALSE,
   text |-> ""]

\* late: a STOP_CAPTURE was handled between the call of transcribeAudio for
\* the unit and its completion
\* text: the kind of result.text, "text" for a text that is not blank
TranscriptMsg(n, c, late, text) ==
  [type |-> "TRANSCRIPT_RESULT", seq |-> n, win |-> c.win, sess |-> c.sess, k |-> c.k,
   late |-> late, text |-> text]

StartCaptureMsg(streamId, cfg) ==
  [type |-> "START_CAPTURE", streamId |-> streamId, apiKey |-> cfg.apiKey, language |-> cfg.language,
   includeMicrophone |-> cfg.includeMicrophone, label |-> cfg.label,
   chunkDuration |-> cfg.chunkDuration]

\* ------------------------------------------- offscreen: state as a value
\* The synchronous code of a handler is a composition of functions on this
\* record; Commit makes the result the next state.
Cur ==
  [mediaRecorder |-> mediaRecorder, tabStream |-> tabStream, micStream |-> micStream,
   mixingContext |-> mixingContext, playbackContext |-> playbackContext,
   streamToRecord |-> streamToRecord, apiKey |-> apiKey, language |-> language,
   sequenceNumber |-> sequenceNumber, isCapturing |-> isCapturing,
   recordingTimer |-> recordingTimer, currentChunks |-> currentChunks,
   recs |-> recs, timers |-> timers, res |-> res, starts |-> starts,
   calls |-> calls, toBg |-> toBg, nStop |-> nStop]

Commit(s) ==
  /\ Len(s.recs) <= MaxCycles
  /\ mediaRecorder' = s.mediaRecorder
  /\ tabStream' = s.tabStream
  /\ micStream' = s.micStream
  /\ mixingContext' = s.mixingContext
  /\ playbackContext' = s.playbackContext
  /\ streamToRecord' = s.streamToRecord
  /\ apiKey' = s.apiKey
  /\ language' = s.language
  /\ sequenceNumber' = s.sequenceNumber
  /\ isCapturing' = s.isCapturing
  /\ recordingTimer' = s.recordingTimer
  /\ currentChunks' = s.currentChunks
  /\ recs' = s.recs
  /\ timers' = s.timers
  /\ res' = s.res
  /\ starts' = s.starts
  /\ calls' = s.calls
  /\ toBg' = s.toBg

SendMessage(s, m) == [s EXCEPT !.toBg = Append(@, m)]

\* a new stream or audio context acquired by invocation p of handleStartCapture
Acquire(s, kind, p) ==
  [s EXCEPT !.res = Append(@, [kind |-> kind, open |-> TRUE, sess |-> p])]

\* track.stop() on every track of a stream / AudioContext.close()
Release(s, h) == [s EXCEPT !.res[h].open = FALSE]

RECURSIVE SumSizes(_)
SumSizes(chunks) ==
  IF chunks = <<>> THEN 0 ELSE Head(chunks).size + SumSizes(Tail(chunks))

\* -------------------------------------------------- recording cycle
\* a stop() after which no event is ever fired
RecorderStop_NoEvents(s, r) == [s EXCEPT !.recs[r].state = "inactive"]

\* mediaRecorder.stop(): the recorder becomes inactive and queues the task
\* that fires its dataavailable event and then its stop event
RecorderStop(s, r) ==
  [s EXCEPT !.recs[r].state = "inactive", !.recs[r].ev = "queued"]

\* timerDelay: the delay of the setTimeout that ends the cycle
NewRecorder(p) ==
  [state |-> "recording", ev |-> "none", sess |-> p, fin |-> FALSE, k |-> 0,
   dropped |-> FALSE, timerDelay |-> RECORDING_DURATION_MS]

StartRecordingCycle(s, p) ==
  IF s.streamToRecord = 0 \/ ~s.isCapturing
  THEN s
  ELSE LET r == Len(s.recs) + 1 IN
       [s EXCEPT !.currentChunks = <<>>,
                 !.recs = Append(@, NewRecorder(p)),
                 !.mediaRecorder = r,
                 !.timers = @ \cup {r},
                 !.recordingTimer = r]

\* a timer callback that stops the recorder and leaves the start of the next
\* cycle to someone else
TimerCallback_StopOnly(s, t) ==
  LET s1 == [s EXCEPT !.timers = @ \ {t}] IN
  IF s1.mediaRecorder # 0 /\ s1.recs[s1.mediaRecorder].state = "recording"
  THEN RecorderStop(s1, s1.mediaRecorder)
  ELSE s1

\* the timer callback of cycle t
TimerCallback(s, t) ==
  LET s1 == [s EXCEPT !.timers = @ \ {t}] IN
  IF s1.mediaRecorder # 0 /\ s1.recs[s1.mediaRecorder].state = "recording"
  THEN LET p  == s1.recs[s1.mediaRecorder].sess
           s2 == RecorderStop(s1, s1.mediaRecorder)
       IN IF s2.isCapturing THEN StartRecordingCycle(s2, p) ELSE s2
  ELSE s1

\* the synchronous part of processAudioBlob, up to the await of transcribeAudio
ProcessAudioBlob(s, unit) ==
  IF unit.size < MinAudioSize THEN [s EXCEPT !.recs[unit.win].dropped = TRUE]
  ELSE IF s.apiKey = "" THEN s
  ELSE [s EXCEPT !.calls = @ \cup
          {[win |-> unit.win, sess |-> unit.sess, k |-> unit.k,
            key |-> s.apiKey, lang |-> s.language, at |-> s.nStop]}]

\* number of windows of session p finalized so far
Finalized(s, p) ==
  Cardinality({q \in 1..Len(s.recs) : s.recs[q].sess = p /\ s.recs[q].fin})

OnDataAvailable(s, r, size) ==
  IF size > 0
  THEN [s EXCEPT !.currentChunks = Append(@, [rec |-> r, size |-> size])]
  ELSE s

OnStop(s, r) ==
  LET s1 == [s EXCEPT !.recs[r].ev = "done"] IN
  IF s1.currentChunks = <<>>
  THEN s1
  ELSE LET k    == Finalized(s1, s1.recs[r].sess)
           unit == [win |-> r, sess |-> s1.recs[r].sess, k |-> k,
                    size |-> SumSizes(s1.currentChunks)]
           s2   == [s1 EXCEPT !.recs[r].fin = TRUE, !.recs[r].k = k]
       IN ProcessAudioBlob(s2, unit)

IsTranscriptionError(outcome) == outcome \in {"unauthorized", "error"}

\* processAudioBlob without its check of an empty text
IsEmptyText_Never(outcome) == FALSE

\* !result.text || result.text.trim().length === 0
IsEmptyText(outcome) == outcome = "empty"

\* processAudioBlob ending the session on an error result
OnTranscriptionError_Abort(s, c) ==
  SendMessage([s EXCEPT !.isCapturing = FALSE, !.recs[c.win].dropped = TRUE],
              OffMsg("CAPTURE_ERROR"))

\* if (isTranscriptionError(result)) { console.error(...); return; }
OnTranscriptionError(s, c) == [s EXCEPT !.recs[c.win].dropped = TRUE]

\* processAudioBlob holding a result back while the call of an earlier window
\* of the session is pending
TranscribeResolved_HoldBack(s, c, outcome) ==
  LET s1 == [s EXCEPT !.calls = @ \ {c}] IN
  IF outcome = "text" /\ \A d \in s1.calls : d.sess = c.sess => d.win > c.win
  THEN SendMessage([s1 EXCEPT !.sequenceNumber = @ + 1],
                   TranscriptMsg(s1.sequenceNumber, c, c.at < s1.nStop, outcome))
  ELSE [s1 EXCEPT !.recs[c.win].dropped = TRUE]

\* the rest of processAudioBlob, after transcribeAudio has resolved
TranscribeResolved(s, c, outcome) ==
  LET s1 == [s EXCEPT !.calls = @ \ {c}] IN
  IF IsTranscriptionError(outcome) THEN OnTranscriptionError(s1, c)
  ELSE IF IsEmptyText(outcome) THEN [s1 EXCEPT !.recs[c.win].dropped = TRUE]
  ELSE SendMessage([s1 EXCEPT !.sequenceNumber = @ + 1],
                   TranscriptMsg(s1.sequenceNumber, c, c.at < s1.nStop, outcome))

\* ------------------------------------------------ handleStartCapture
SetPc(s, p, pc) == [s EXCEPT !.starts[p].pc = pc]

\* every earlier invocation of handleStartCapture has returned
NoneSuspended(s) == \A q \in 1..Len(s.starts) : s.starts[q].pc = "done"

\* handleStartCapture without its isCapturing guard
AlreadyCapturing_NoGuard(s) == FALSE

AlreadyCapturing(s) == s.isCapturing

\* a catch block that reports nothing and lets the start go on to Step 5
CatchStart_StartAnyway(s, p) ==
  SendMessage(SetPc([s EXCEPT !.isCapturing = TRUE], p, "done"), OffMsg("CAPTURE_STARTED"))

\* the catch block of the outer try
CatchStart(s, p) == SendMessage(SetPc(s, p, "done"), OffMsg("CAPTURE_ERROR"))

\* Step 5: isCapturing = true; startRecordingCycle(); CAPTURE_STARTED
BeginCapture(s, p) ==
  LET s1 == [s EXCEPT !.isCapturing = TRUE]
      s2 == StartRecordingCycle(s1, p)
  IN SendMessage(SetPc(s2, p, "done"), OffMsg("CAPTURE_STARTED"))

\* streamToRecord = tabStream, in the else branch and in the inner catch
TabOnly(s, p) == BeginCapture([s EXCEPT !.streamToRecord = s.tabStream], p)

\* Step 3, up to the first await of the microphone branch
ChooseStream(s, p) ==
  IF s.starts[p].includeMicrophone
  THEN IF s.starts[p].label # "" THEN SetPc(s, p, "enum") ELSE SetPc(s, p, "mic")
  ELSE TabOnly(s, p)

\* playbackContext.createMediaStreamSource(tabStream): a TypeError when the
\* context or the stream has been set to null meanwhile
ConnectPlayback(s, p) ==
  IF s.playbackContext = 0 \/ s.tabStream = 0
  THEN CatchStart(s, p)
  ELSE ChooseStream(s, p)

\* Step 4 after the mixing context is running: wire both sources
ConnectMix(s, p) ==
  IF s.mixingContext = 0 \/ s.tabStream = 0 \/ s.micStream = 0
  THEN TabOnly(s, p)
  ELSE BeginCapture([s EXCEPT !.streamToRecord = s.mixingContext], p)

\* the listener's call of handleStartCapture(message), up to the first await
HandleStartCapture(s, m) ==
  IF AlreadyCapturing(s)
  THEN s
  ELSE LET s1 == [s EXCEPT !.apiKey = m.apiKey,
                           !.language = IF m.language = "" THEN "zh" ELSE m.language,
                           !.sequenceNumber = 0]
       IN IF s1.apiKey = ""
          THEN SendMessage(s1, OffMsg("CAPTURE_ERROR"))
          ELSE [s1 EXCEPT !.starts = Append(@,
                  [pc |-> "tab", streamId |-> m.streamId,
                   includeMicrophone |-> m.includeMicrophone, label |-> m.label,
                   at |-> s.nStop, alone |-> NoneSuspended(s),
                   apiKey |-> s1.apiKey, language |-> s1.language,
                   chunkDuration |-> m.chunkDuration])]

\* getUserMedia(tab) has settled; o is what happened up to the next await
TabOutcomes == {"reject", "suspended", "running"}

ResumeTab(s, p, o) ==
  IF o = "reject" THEN CatchStart(s, p)
  ELSE LET s1 == [Acquire(s, "tab", p) EXCEPT !.tabStream = Len(s.res) + 1] IN
       LET s2 == [Acquire(s1, "play", p) EXCEPT !.playbackContext = Len(s1.res) + 1] IN
            IF o = "suspended" THEN SetPc(s2, p, "play")
            ELSE ConnectPlayback(s2, p)

\* playbackContext.resume() has settled
ResumePlayback(s, p, ok) ==
  IF ok THEN ConnectPlayback(s, p) ELSE CatchStart(s, p)

\* enumerateDevices() has settled
ResumeEnumerate(s, p, ok) ==
  IF ok THEN SetPc(s, p, "mic") ELSE TabOnly(s, p)

\* getUserMedia(microphone) has settled
MicOutcomes == {"reject", "suspended", "running"}

\* handleStartCapture without the try/catch around the microphone branch
ResumeMic_Fatal(s, p, o) ==
  IF o = "reject" THEN CatchStart(s, p)
  ELSE LET s1 == [Acquire(s, "mic", p) EXCEPT !.micStream = Len(s.res) + 1] IN
       LET s2 == [Acquire(s1, "mix", p) EXCEPT !.mixingContext = Len(s1.res) + 1] IN
            IF o = "suspended" THEN SetPc(s2, p, "mix")
            ELSE ConnectMix(s2, p)

ResumeMic(s, p, o) ==
  IF o = "reject" THEN TabOnly(s, p)
  ELSE LET s1 == [Acquire(s, "mic", p) EXCEPT !.micStream = Len(s.res) + 1] IN
       LET s2 == [Acquire(s1, "mix", p) EXCEPT !.mixingContext = Len(s1.res) + 1] IN
            IF o = "suspended" THEN SetPc(s2, p, "mix")
            ELSE ConnectMix(s2, p)

\* mixingContext.resume() has settled
ResumeMix(s, p, ok) ==
  IF ok THEN ConnectMix(s, p) ELSE TabOnly(s, p)

\* ------------------------------------------------- handleStopCapture
ClearTimer(s) ==
  IF s.recordingTimer # 0
  THEN [s EXCEPT !.timers = @ \ {s.recordingTimer}, !.recordingTimer = 0]
  ELSE s

StopCurrentRecorder(s) ==
  LET s1 == IF s.mediaRecorder # 0 /\ s.recs[s.mediaRecorder].state = "recording"
            THEN RecorderStop(s, s.mediaRecorder) ELSE s
  IN [s1 EXCEPT !.mediaRecorder = 0]

\* handleStopCapture with `if (micStream) {...} else if (tabStream) {...}':
\* the tab stream is left alone while a microphone stream is held
ReleaseTab_ElseIf(s) ==
  IF s.micStream # 0 THEN s
  ELSE IF s.tabStream # 0 THEN [Release(s, s.tabStream) EXCEPT !.tabStream = 0] ELSE s

ReleaseTab(s) ==
  IF s.tabStream # 0 THEN [Release(s, s.tabStream) EXCEPT !.tabStream = 0] ELSE s

ReleaseMic(s) ==
  IF s.micStream # 0 THEN [Release(s, s.micStream) EXCEPT !.micStream = 0] ELSE s

CloseMixing(s) ==
  IF s.mixingContext # 0 /\ s.res[s.mixingContext].open
  THEN [Release(s, s.mixingContext) EXCEPT !.mixingContext = 0] ELSE s

ClosePlayback(s) ==
  IF s.playbackContext # 0 /\ s.res[s.playbackContext].open
  THEN [Release(s, s.playbackContext) EXCEPT !.playbackContext = 0] ELSE s

HandleStopCapture(s) ==
  LET s1 == [s EXCEPT !.isCapturing = FALSE]
      s2 == StopCurrentRecorder(ClearTimer(s1))
      s3 == ClosePlayback(CloseMixing(ReleaseMic(ReleaseTab(s2))))
      s4 == [s3 EXCEPT !.streamToRecord = 0, !.apiKey = "", !.currentChunks = <<>>]
  IN SendMessage(s4, OffMsg("CAPTURE_STOPPED"))

\* ------------------------------------------------------ transcript panel
\* [...prev, entry].sort((a, b) => a.sequenceNumber - b.sequenceNumber):
\* Array.prototype.sort is stable, so the result is an insertion sort that
\* keeps entries of equal sequenceNumber in arrival order
RECURSIVE InsertBySeq(_, _)
InsertBySeq(list, e) ==
  IF list = <<>> THEN <<e>>
  ELSE IF Head(list).seq <= e.seq
       THEN <<Head(list)>> \o InsertBySeq(Tail(list), e)
       ELSE <<e>> \o list

RECURSIVE SortBySeq(_)
SortBySeq(list) ==
  IF list = <<>> THEN <<>>
  ELSE InsertBySeq(SortBySeq(SubSeq(list, 1, Len(list) - 1)), list[Len(list)])

PanelHandleMessage(prev, m) ==
  SortBySeq(Append(prev, [seq |-> m.seq, win |-> m.win, sess |-> m.sess, k |-> m.k]))

\* ------------------------------------------------------------ background
StatusResponse(capturing, error) == [isCapturing |-> capturing, error |-> error]

RemoveAt(seq, i) == SubSeq(seq, 1, i - 1) \o SubSeq(seq, i + 1, Len(seq))

InitCapture ==
  /\ mediaRecorder = 0 /\ tabStream = 0 /\ micStream = 0
  /\ mixingContext = 0 /\ playbackContext = 0 /\ streamToRecord = 0
  /\ apiKey = "" /\ language = "zh" /\ sequenceNumber = 0 /\ isCapturing = FALSE
  /\ recordingTimer = 0 /\ currentChunks = <<>>
  /\ recs = <<>> /\ timers = {} /\ res = <<>> /\ starts = <<>> /\ calls = {}
  /\ toBg = <<>>
  /\ bgIsCapturing = FALSE /\ currentTabId = 0 /\ bgProcs = <<>>
  /\ lastResponse = StatusResponse(FALSE, FALSE) /\ nStart = 0 /\ nStop = 0
  /\ sinkLog = <<>> /\ transcripts = [t \in 1..2 |-> <<>>]

\* no transcription call has been made yet (pc = "idle") or one call of each
\* client is about to make its first request (pc = "fetch")
NoResponse == [success |-> FALSE, isRetryable |-> FALSE, error |-> ""]
NoResult == [isError |-> FALSE, code |-> "", text |-> <<>>]
NoFetch == [status |-> 0, hasSegments |-> FALSE, segments |-> <<>>]
NoForm == [model |-> "", hasLanguage |-> FALSE, language |-> ""]

InitClients(pc) ==
  /\ attempt = 0 /\ lastError = "" /\ retryPc = pc
  /\ retryForm = NoForm /\ simpleForm = NoForm
  /\ fetched = <<>> /\ slept = <<>> /\ retryResponse = NoResponse
  /\ simplePc = pc /\ simpleResponse = NoFetch
  /\ validSegments = <<>> /\ simpleResult = NoResult

\* validateApiKey has not been called
NoProbe ==
  /\ probePc = "idle" /\ probeKey = <<>> /\ probeFetched = <<>> /\ probeResult = FALSE

Init == InitCapture /\ InitClients("idle") /\ NoProbe /\ callLanguage = "zh"

\* chrome.runtime.sendMessage dispatches a message to the offscreen listener in
\* sending order, and the listener runs its handler up to the handler's first
\* await before it returns.  A send changes nothing but the channel, so it
\* commutes with every step up to its receipt: send and receipt are one step.

\* START_CAPTURE_REQUEST: startCapture up to `currentTabId = tab.id';
\* t is what tabs.query resolves to
BgStartQuery(t) ==
  /\ nStart < MaxStarts
  /\ nStart' = nStart + 1
  /\ IF t = 0 \/ ~IsMeetTab(t)
     THEN /\ lastResponse' = StatusResponse(bgIsCapturing, TRUE)
          /\ UNCHANGED <<currentTabId, bgProcs>>
     ELSE /\ currentTabId' = t
          /\ bgProcs' = Append(bgProcs, [type |-> "start", pc |-> "settings", tab |-> t])
          /\ UNCHANGED lastResponse
  /\ UNCHANGED <<offVars, envVars, toBg, bgIsCapturing, nStop, sinkVars, clientVars>>

\* startCapture from the settings reads to the sendMessage of START_CAPTURE
\* and the offscreen listener's handleStartCapture(message);
\* ok is false when getMediaStreamId or ensureOffscreenDocument rejects
BgStartSend(i, cfg, ok) ==
  /\ bgProcs[i].type = "start" /\ bgProcs[i].pc = "settings"
  /\ IF cfg.apiKey = "" \/ ~ok
     THEN /\ lastResponse' = StatusResponse(bgIsCapturing, TRUE)
          /\ bgProcs' = RemoveAt(bgProcs, i)
          /\ UNCHANGED <<offVars, envVars, toBg>>
     ELSE /\ Commit(HandleStartCapture(Cur, StartCaptureMsg(bgProcs[i].tab, cfg)))
          /\ bgProcs' = [bgProcs EXCEPT ![i].pc = "delivered"]
          /\ UNCHANGED lastResponse
  /\ UNCHANGED <<bgIsCapturing, currentTabId, nStart, nStop, sinkVars, clientVars>>

\* sendResponse({isCapturing: true}) after the await of sendMessage
BgStartDone(i) ==
  /\ bgProcs[i].type = "start" /\ bgProcs[i].pc = "delivered"
  /\ lastResponse' = StatusResponse(TRUE, FALSE)
  /\ bgProcs' = RemoveAt(bgProcs, i)
  /\ UNCHANGED <<offVars, envVars, toBg, bgIsCapturing, currentTabId,
                 nStart, nStop, sinkVars, clientVars>>

\* STOP_CAPTURE_REQUEST: stopCapture up to the await of sendMessage, and the
\* offscreen listener's handleStopCapture()
BgStopSend ==
  /\ nStop < SysMaxStops
  /\ nStop' = nStop + 1
  /\ Commit(HandleStopCapture([Cur EXCEPT !.nStop = nStop + 1]))
  /\ bgProcs' = Append(bgProcs, [type |-> "stop", pc |-> "delivered", tab |-> 0])
  /\ UNCHANGED <<bgIsCapturing, currentTabId, lastResponse, nStart, sinkVars, clientVars>>

\* the rest of stopCapture and sendResponse({isCapturing: false})
BgStopDone(i) ==
  /\ bgProcs[i].type = "stop" /\ bgProcs[i].pc = "delivered"
  /\ currentTabId' = 0
  /\ lastResponse' = StatusResponse(FALSE, FALSE)
  /\ bgProcs' = RemoveAt(bgProcs, i)
  /\ UNCHANGED <<offVars, envVars, toBg, bgIsCapturing, nStart, nStop, sinkVars, clientVars>>

\* GET_STATUS_REQUEST changes no state: its response is the current flag
GetStatusResponse == StatusResponse(bgIsCapturing, FALSE)

\* forwardToContentScript and, in the tab, the panel's onMessage handler
ForwardToContentScript(m) ==
  IF currentTabId = 0
  THEN UNCHANGED sinkVars
  ELSE /\ sinkLog' = Append(sinkLog, [tab |-> currentTabId, seq |-> m.seq, win |-> m.win,
                                      sess |-> m.sess, k |-> m.k, late |-> m.late])
       /\ transcripts' = [transcripts EXCEPT
                            ![currentTabId] = PanelHandleMessage(@, m)]

BgHandleOffscreenMessage ==
  /\ toBg # <<>>
  /\ LET m == Head(toBg) IN
       /\ toBg' = Tail(toBg)
       /\ IF m.type = "TRANSCRIPT_RESULT"
          THEN ForwardToContentScript(m) /\ UNCHANGED bgIsCapturing
          ELSE /\ bgIsCapturing' = (m.type = "CAPTURE_STARTED")
               /\ UNCHANGED sinkVars
  /\ UNCHANGED <<offVars, envVars, currentTabId, bgProcs, lastResponse, nStart, nStop,
                 clientVars>>

\* -------------------------------------------------------------- offscreen
offRest == <<bgVars, sinkVars, clientVars>>

StartResumeTab(p, o) ==
  /\ starts[p].pc = "tab"
  /\ Commit(ResumeTab(Cur, p, o))
  /\ UNCHANGED offRest

StartResumePlayback(p, ok) ==
  /\ starts[p].pc = "play"
  /\ Commit(ResumePlayback(Cur, p, ok))
  /\ UNCHANGED offRest

StartResumeEnumerate(p, ok) ==
  /\ starts[p].pc = "enum"
  /\ Commit(ResumeEnumerate(Cur, p, ok))
  /\ UNCHANGED offRest

StartResumeMic(p, o) ==
  /\ starts[p].pc = "mic"
  /\ Commit(ResumeMic(Cur, p, o))
  /\ UNCHANGED offRest

StartResumeMix(p, ok) ==
  /\ starts[p].pc = "mix"
  /\ Commit(ResumeMix(Cur, p, ok))
  /\ UNCHANGED offRest

\* a timer expires RECORDING_DURATION_MS after it was set: the events that
\* recorders queued before it was set have been dispatched by then
TimerDue(t) ==
  /\ t \in timers
  /\ \A r \in 1..Len(recs) : r < t => recs[r].ev # "queued"

TimerFire(t) ==
  /\ TimerDue(t)
  /\ Commit(TimerCallback(Cur, t))
  /\ UNCHANGED offRest

\* the task a stopped recorder queued: both events fire in it, one after
\* the other; size is the size of the recorded data
RecorderEvents(r, size) ==
  /\ recs[r].ev = "queued"
  /\ Commit(OnStop(OnDataAvailable(Cur, r, size), r))
  /\ UNCHANGED offRest

TranscribeDone(c, outcome) ==
  /\ c \in calls
  /\ Commit(TranscribeResolved(Cur, c, outcome))
  /\ UNCHANGED offRest

\* ------------------------------------------ the capture context alone
\* The offscreen listener takes START_CAPTURE and STOP_CAPTURE at any time,
\* with any settings the background can send (it sends no empty apiKey).
SentConfigs == {cfg \in Configs : cfg.apiKey # ""}

OffStartCapture(cfg) ==
  /\ nStart < MaxStarts
  /\ nStart' = nStart + 1
  /\ Commit(HandleStartCapture(Cur, StartCaptureMsg(1, cfg)))
  /\ UNCHANGED <<bgIsCapturing, currentTabId, bgProcs, lastResponse, nStop, sinkVars, clientVars>>

OffStopCapture ==
  /\ nStop < MaxStops
  /\ nStop' = nStop + 1
  /\ Commit(HandleStopCapture([Cur EXCEPT !.nStop = nStop + 1]))
  /\ UNCHANGED <<bgIsCapturing, currentTabId, bgProcs, lastResponse, nStart, sinkVars, clientVars>>

Next ==
  \/ \E cfg \in SentConfigs : OffStartCapture(cfg)
  \/ OffStopCapture
  \/ \E p \in 1..Len(starts), o \in TabOutcomes : StartResumeTab(p, o)
  \/ \E p \in 1..Len(starts), ok \in BOOLEAN : StartResumePlayback(p, ok)
  \/ \E p \in 1..Len(starts), ok \in BOOLEAN : StartResumeEnumerate(p, ok)
  \/ \E p \in 1..Len(starts), o \in MicOutcomes : StartResumeMic(p, o)
  \/ \E p \in 1..Len(starts), ok \in BOOLEAN : StartResumeMix(p, ok)
  \/ \E t \in timers : TimerFire(t)
  \/ \E r \in 1..Len(recs), size \in DataSizes : RecorderEvents(r, size)
  \/ \E c \in calls, outcome \in Outcomes : TranscribeDone(c, outcome)

Spec == Init /\ [][Next]_vars

\* ------------------------------- controller, capture context and panel
\* The whole extension, for sessions that record the tab only.
TabOnlyConfigs == {cfg \in Configs : ~cfg.includeMicrophone}

CyclesWithin(n) == Len(recs') <= n

NextSys ==
  \/ \E t \in QueryResults : BgStartQuery(t)
  \/ \E i \in 1..Len(bgProcs), cfg \in TabOnlyConfigs, ok \in BOOLEAN : BgStartSend(i, cfg, ok)
  \/ \E i \in 1..Len(bgProcs) : BgStartDone(i)
  \/ BgStopSend
  \/ \E i \in 1..Len(bgProcs) : BgStopDone(i)
  \/ BgHandleOffscreenMessage
  \/ \E p \in 1..Len(starts), o \in TabOutcomes :
        StartResumeTab(p, o) /\ CyclesWithin(SysMaxCycles)
  \/ \E p \in 1..Len(starts), ok \in BOOLEAN :
        StartResumePlayback(p, ok) /\ CyclesWithin(SysMaxCycles)
  \/ \E t \in timers : TimerFire(t) /\ CyclesWithin(SysMaxCycles)
  \/ \E r \in 1..Len(recs), size \in DataSizes : RecorderEvents(r, size)
  \/ \E c \in calls, outcome \in Outcomes : TranscribeDone(c, outcome)

SpecSys == Init /\ [][NextSys]_vars

\* ------------------------------------- a recorder that stops by itself
\* The recorder cannot go on recording (an error, or the tracks of its stream
\* have ended): the browser makes it inactive and queues its error,
\* dataavailable and stop events; onerror only logs.
RecorderError(r) ==
  /\ recs[r].state = "recording"
  /\ Commit(RecorderStop(Cur, r))
  /\ UNCHANGED offRest

\* the capture context alone, recording the tab only, with such recorders
NextErr ==
  \/ \E cfg \in SentConfigs \cap TabOnlyConfigs : OffStartCapture(cfg)
  \/ OffStopCapture
  \/ \E p \in 1..Len(starts), o \in TabOutcomes : StartResumeTab(p, o)
  \/ \E p \in 1..Len(starts), ok \in BOOLEAN : StartResumePlayback(p, ok)
  \/ \E t \in timers : TimerFire(t)
  \/ \E r \in 1..Len(recs), size \in DataSizes : RecorderEvents(r, size)
  \/ \E c \in calls, outcome \in Outcomes : TranscribeDone(c, outcome)
  \/ \E r \in 1..Len(recs) : RecorderError(r)

SpecErr == Init /\ [][NextErr]_vars

\* ------------------------------------------------ transcription clients
\* HTTP status of a response; 0 stands for a fetch that rejects
Statuses == {0, 200, 400, 401, 404, 429, 500, 503}

ResponseOk(status) == status \in 200..299

\* a text is a sequence of characters
SegmentTexts == {<<"a">>, <<"b">>, <<" ">>}

Segments ==
  [text : SegmentTexts, no_speech_prob : {50, 51}, avg_logprob : {-51, -50}]

SegmentLists == UNION {[1..n -> Segments] : n \in 0..MaxSegments}

\* what fetch hands to transcribeAudio (lib/transcription)
SimpleResponses ==
  {[status |-> st, hasSegments |-> FALSE, segments |-> <<>>] : st \in Statuses}
    \cup {[status |-> 200, hasSegments |-> TRUE, segments |-> l] : l \in SegmentLists}

HasNoSpeech_Inclusive(seg) == seg.no_speech_prob >= NO_SPEECH_THRESHOLD

HasNoSpeech(seg) == seg.no_speech_prob > NO_SPEECH_THRESHOLD

IsLowConfidence(seg) == seg.avg_logprob < AVG_LOGPROB_THRESHOLD

\* the callback of (result.segments || []).filter
KeepSegment(seg) == ~(HasNoSpeech(seg) \/ IsLowConfidence(seg))

RECURSIVE JoinTexts(_)
JoinTexts(segs) ==
  IF segs = <<>> THEN <<>> ELSE Head(segs).text \o JoinTexts(Tail(segs))

RECURSIVE TrimStart(_)
TrimStart(txt) ==
  IF txt # <<>> /\ Head(txt) = " " THEN TrimStart(Tail(txt)) ELSE txt

RECURSIVE TrimEnd(_)
TrimEnd(txt) ==
  IF txt # <<>> /\ txt[Len(txt)] = " " THEN TrimEnd(SubSeq(txt, 1, Len(txt) - 1)) ELSE txt

Trim_StartOnly(txt) == TrimStart(txt)

Trim(txt) == TrimEnd(TrimStart(txt))

\* result.segments || []
SegmentsOf(resp) == IF resp.hasSegments THEN resp.segments ELSE <<>>

FilterSegments_DropFirst(segs) ==
  LET kept == SelectSeq(segs, KeepSegment) IN
    IF kept = <<>> THEN kept ELSE Tail(kept)

\* (result.segments || []).filter(...)
FilterSegments(segs) == SelectSeq(segs, KeepSegment)

\* the language argument: a language code, 'auto' or the empty string
Languages == {"zh", "en", "auto", ""}

\* the form data of transcribeAudio (lib/transcription): language is appended
\* if (language && language !== 'auto')
SimpleForm(lang) ==
  LET has == lang # "" /\ lang # "auto" IN
    [model |-> "whisper-large-v3-turbo", hasLanguage |-> has,
     language |-> IF has THEN lang ELSE ""]

\* the form data of the retrying transcribeAudio (lib/groq)
RetryForm(lang) ==
  [model |-> "whisper-large-v3", hasLanguage |-> TRUE, language |-> lang]

\* transcribeAudio (lib/transcription): its request and, from the settling
\* of fetch on, the rest of the call
SimpleFetch(resp) ==
  /\ simplePc = "fetch"
  /\ simplePc' = "done"
  /\ simpleForm' = SimpleForm(callLanguage)
  /\ simpleResponse' = resp
  /\ IF resp.status = 0
     THEN /\ simpleResult' = [isError |-> TRUE, code |-> "NETWORK_ERROR", text |-> <<>>]
          /\ UNCHANGED validSegments
     ELSE IF ~ResponseOk(resp.status)
     THEN /\ simpleResult' = [isError |-> TRUE, code |-> ToString(resp.status), text |-> <<>>]
          /\ UNCHANGED validSegments
     ELSE /\ validSegments' = FilterSegments(SegmentsOf(resp))
          /\ simpleResult' = [isError |-> FALSE, code |-> "",
                              text |-> Trim(JoinTexts(validSegments'))]
  /\ UNCHANGED <<captureVars, callLanguage, retryVars, probeVars>>

\* the retrying transcribeAudio (lib/groq)
IsServerError_Any(status) == status >= 400

IsServerError(status) == status >= 500

\* a delay that does not grow with the attempt
RetryDelay_Flat(a) == INITIAL_RETRY_DELAY

\* INITIAL_RETRY_DELAY * Math.pow(2, attempt)
RetryDelay(a) == INITIAL_RETRY_DELAY * 2^a

NextAttempt_Stuck(a) == a

\* attempt++ of the for statement
NextAttempt(a) == a + 1

ErrorOf(status) ==
  IF status = 429 THEN "rate limit"
  ELSE IF status = 0 THEN "network" ELSE "server"

\* one pass of the loop body up to a return or to the await of sleep(delay)
RetryFetch(status) ==
  /\ retryPc = "fetch"
  /\ Len(fetched) < MaxRequests
  /\ retryForm' = RetryForm(callLanguage)
  /\ fetched' = Append(fetched, status)
  /\ IF status # 0 /\ ResponseOk(status)
     THEN /\ retryPc' = "done"
          /\ retryResponse' = [success |-> TRUE, isRetryable |-> FALSE, error |-> ""]
     ELSE IF status = 401
     THEN /\ retryPc' = "done"
          /\ retryResponse' = [success |-> FALSE, isRetryable |-> FALSE, error |-> "unauthorized"]
     ELSE IF status = 0 \/ status = 429 \/ IsServerError(status)
     THEN /\ retryPc' = "sleep"
          /\ UNCHANGED retryResponse
     ELSE /\ retryPc' = "done"
          /\ retryResponse' = [success |-> FALSE, isRetryable |-> FALSE, error |-> "client"]
  /\ UNCHANGED <<attempt, lastError, slept, captureVars, callLanguage, simpleVars, probeVars>>

\* sleep(delay) is over: lastError is set, the loop goes to its next pass or
\* ends, and after the loop the error response is returned
RetryWake ==
  /\ retryPc = "sleep"
  /\ slept' = Append(slept, RetryDelay(attempt))
  /\ lastError' = ErrorOf(fetched[Len(fetched)])
  /\ attempt' = NextAttempt(attempt)
  /\ IF attempt' < MAX_RETRIES
     THEN retryPc' = "fetch" /\ UNCHANGED retryResponse
     ELSE /\ retryPc' = "done"
          /\ retryResponse' = [success |-> FALSE, isRetryable |-> TRUE, error |-> lastError']
  /\ UNCHANGED <<retryForm, fetched, captureVars, callLanguage, simpleVars, probeVars>>

InitClient ==
  /\ InitCapture /\ InitClients("fetch") /\ NoProbe
  /\ callLanguage \in Languages

NextClient ==
  \/ \E resp \in SimpleResponses : SimpleFetch(resp)
  \/ \E status \in Statuses : RetryFetch(status)
  \/ RetryWake

SpecClient == InitClient /\ [][NextClient]_vars

\* every fetch settles and every setTimeout of sleep fires
SpecClientLive ==
  /\ SpecClient
  /\ WF_vars(\E resp \in SimpleResponses : SimpleFetch(resp))
  /\ WF_vars(\E status \in Statuses : RetryFetch(status))
  /\ WF_vars(RetryWake)

\* ------------------------------------------------------ validateApiKey
\* a key is a sequence of characters, blanks among them
ApiKeys == UNION {[1..n -> {" ", "k"}] : n \in 0..MaxKeyLen}

\* !apiKey || apiKey.trim().length === 0
IsBlankKey(key) == key = <<>> \/ Len(Trim(key)) = 0

ProbeValid_OkOnly(status) == ResponseOk(status)

\* return response.status !== 401
ProbeValid(status) == status # 401

\* validateApiKey up to its return of false or to the await of fetch
ValidateCall ==
  /\ probePc = "call"
  /\ IF IsBlankKey(probeKey)
     THEN probePc' = "done" /\ probeResult' = FALSE
     ELSE probePc' = "fetch" /\ UNCHANGED probeResult
  /\ UNCHANGED <<probeKey, probeFetched, captureVars, callLanguage, retryVars, simpleVars>>

\* the fetch settles: a response of any status, or a rejection (status 0)
\* that the catch block turns into false
ValidateFetch(status) ==
  /\ probePc = "fetch"
  /\ probePc' = "done"
  /\ probeFetched' = Append(probeFetched, status)
  /\ probeResult' = IF status = 0 THEN FALSE ELSE ProbeValid(status)
  /\ UNCHANGED <<probeKey, captureVars, callLanguage, retryVars, simpleVars>>

InitProbe ==
  /\ InitCapture /\ InitClients("idle") /\ callLanguage = "zh"
  /\ probePc = "call" /\ probeKey \in ApiKeys
  /\ probeFetched = <<>> /\ probeResult = FALSE

NextProbe ==
  \/ ValidateCall
  \/ \E status \in Statuses : ValidateFetch(status)

SpecProbe == InitProbe /\ [][NextProbe]_vars

\* ====================================================== claims
\* In Spec the background does not run, so toBg holds every message the
\* capture context has sent, in sending order.
IsTranscript(m) == m.type = "TRANSCRIPT_RESULT"
Sent == SelectSeq(toBg, IsTranscript)

\* the panel's list after it has handled msgs in order
RECURSIVE PanelAfter(_)
PanelAfter(msgs) ==
  IF msgs = <<>> THEN <<>>
  ELSE PanelHandleMessage(PanelAfter(SubSeq(msgs, 1, Len(msgs) - 1)), msgs[Len(msgs)])

Recording == {r \in 1..Len(recs) : recs[r].state = "recording"}
OpenHandles == {h \in 1..Len(res) : res[h].open}

\* not capturing, no cycle running, no timer pending
Idle == ~isCapturing /\ mediaRecorder = 0 /\ Recording = {} /\ timers = {}

\* no stream or audio context is held or left open
Released ==
  /\ tabStream = 0 /\ micStream = 0 /\ mixingContext = 0 /\ playbackContext = 0
  /\ streamToRecord = 0
  /\ OpenHandles = {}

\* C1: the fragments sent to the sink, and the panel's list sorted by
\* sequenceNumber, are in the order in which their windows were captured
\* (recorders are numbered in creation order).
C1_CaptureOrder ==
  /\ \A a, b \in 1..Len(Sent) : a < b => Sent[a].win < Sent[b].win
  /\ LET list == PanelAfter(Sent) IN
       \A a, b \in 1..Len(list) : a < b => list[a].win < list[b].win

\* C2: the fragment of the k-th finalized window of a session carries
\* sequence number k.
C2_NumberFixedAtCapture ==
  \A a \in 1..Len(Sent) : Sent[a].seq = Sent[a].k

\* C3: the sequence numbers that reach the sink are strictly increasing in
\* delivery order, so none is delivered twice.
C3_MonotonicDelivery ==
  \A a, b \in 1..Len(Sent) : a < b => Sent[a].seq < Sent[b].seq

\* C4: the number of a dropped window is consumed: no later window of the
\* session is delivered with it.
C4_DroppedNumberConsumed ==
  \A a \in 1..Len(Sent), r \in 1..Len(recs) :
    (recs[r].dropped /\ recs[r].sess = Sent[a].sess /\ r < Sent[a].win)
      => Sent[a].seq # recs[r].k

\* C5: at most one recorder is recording, at most one cycle timer is pending,
\* and every tab stream that is still live is the one tabStream references.
C5_OneActiveSession ==
  /\ Cardinality(Recording) <= 1
  /\ Cardinality(timers) <= 1
  /\ \A h \in OpenHandles : res[h].kind = "tab" => tabStream = h

\* C6: a START_CAPTURE handled while isCapturing is true changes nothing in
\* the capture context and sends no message.
C6_StartWhileCapturingNoOp ==
  [][(nStart' # nStart /\ isCapturing) => UNCHANGED <<offVars, envVars, toBg>>]_vars

\* C6 witness: two START_CAPTURE were handled, no STOP_CAPTURE, the first one
\* started the session that is capturing and the second one was ignored.
C6_Witness ==
  /\ nStart = 2 /\ nStop = 0 /\ isCapturing
  /\ Len(starts) = 1 /\ Cardinality(Recording) = 1

\* C7: a START_CAPTURE_REQUEST that creates no session leaves the tab of the
\* running session in currentTabId.  (One START_CAPTURE has passed the guard
\* and captures; no stop was requested; no popup request is in progress.)
C7_TabOfSessionKept ==
  (nStop = 0 /\ Len(starts) = 1 /\ isCapturing /\ bgProcs = <<>>)
    => currentTabId = starts[1].streamId

\* C8: once a STOP_CAPTURE has been handled, a recorder is created only for a
\* session whose START_CAPTURE was received after that stop.
C8_NoCycleAfterStop ==
  [][Len(recs') > Len(recs) => starts[recs'[Len(recs')].sess].at = nStop]_vars

\* C9: when the last invocation of handleStartCapture returns, a STOP_CAPTURE
\* was handled while it was suspended and no START_CAPTURE came after that
\* stop, then the context is idle and holds nothing.
C9_StopDuringStart ==
  [][\A p \in 1..Len(starts) :
       ( /\ starts[p].pc # "done" /\ starts'[p].pc = "done"
         /\ \A q \in 1..Len(starts) : q # p => starts[q].pc = "done"
         /\ \A q \in 1..Len(starts) : starts[q].at < nStop )
       => (Idle' /\ Released')]_vars

\* C10: when STOP_CAPTURE is handled after every start has returned (the
\* starts having run one after the other), the context is idle and every
\* stream and audio context that was acquired is released.
C10_StopReleasesAll ==
  [][( /\ nStop' # nStop
       /\ \A p \in 1..Len(starts) : starts[p].pc = "done" /\ starts[p].alone )
     => (Idle' /\ Released')]_vars

\* the capture state of a state value: module variables and browser objects
CaptureState(s) ==
  <<s.mediaRecorder, s.tabStream, s.micStream, s.mixingContext, s.playbackContext,
    s.streamToRecord, s.apiKey, s.language, s.sequenceNumber, s.isCapturing,
    s.recordingTimer, s.currentChunks, s.recs, s.timers, s.res, s.starts, s.calls>>

\* C11: stop is idempotent.  In the state a STOP_CAPTURE leaves behind,
\* handling STOP_CAPTURE once more changes nothing of the capture state (it
\* only sends CAPTURE_STOPPED again); a STOP_CAPTURE handled before any
\* START_CAPTURE leaves the initial capture state unchanged.
C11_StopIdempotent ==
  [][nStop' # nStop =>
       /\ CaptureState(HandleStopCapture(Cur')) = CaptureState(Cur')
       /\ nStart = 0 => UNCHANGED <<offVars, envVars>>]_vars

\* C11 witness: a session with microphone was recording, and the last two
\* messages of the capture context are CAPTURE_STOPPED: two stops in a row.
C11_Witness ==
  /\ nStop = 2 /\ Len(recs) >= 1 /\ Idle /\ Released
  /\ \E h \in 1..Len(res) : res[h].kind = "mic"
  /\ Len(toBg) >= 2
  /\ toBg[Len(toBg)].type = "CAPTURE_STOPPED"
  /\ toBg[Len(toBg) - 1].type = "CAPTURE_STOPPED"

\* C12: the cycle that a stop cuts short is finalized as one unit and, when
\* it has at least MinAudioSize bytes, handed to transcribeAudio: when the
\* events of a stopped recorder have run and left a finalized unit that was
\* not dropped for its size, a transcription call for that window exists.
C12_PartialCycleSubmitted ==
  [][\A r \in 1..Len(recs) :
       (recs[r].ev = "queued" /\ recs'[r].ev = "done" /\ recs'[r].fin /\ ~recs'[r].dropped)
         => \E c \in calls' : c.win = r]_vars

\* C13: the result of a transcription that was called before a STOP_CAPTURE
\* and completes after it is discarded: the background forwards no such
\* fragment to a tab (looked at when no stop request is still in progress in
\* the background, so that the stop has been handled everywhere).
C13_LateResultDiscarded ==
  [][( /\ Len(sinkLog') > Len(sinkLog)
       /\ \A i \in 1..Len(bgProcs) : bgProcs[i].type # "stop" )
     => ~sinkLog'[Len(sinkLog')].late]_vars

\* C14: when transcribeAudio resolves to the 401 error for a unit while the
\* context is capturing, the session is aborted: the context is no longer
\* capturing and CAPTURE_ERROR is sent to the background.
C14_UnauthorizedAborts ==
  [][\A c \in calls :
       (isCapturing /\ TranscribeDone(c, "unauthorized"))
         => ( /\ ~isCapturing'
              /\ Len(toBg') > Len(toBg)
              /\ toBg'[Len(toBg')].type = "CAPTURE_ERROR" )]_vars

\* C15: a unit that fails for another reason than 401 does not touch the
\* session.  When transcribeAudio resolves to such an error, the module
\* state, the timers, the streams and contexts, every recorder's state and
\* the other calls are unchanged and no message is sent; the same holds,
\* apart from the chunk buffer, when a unit is dropped for its size.
C15_UnitFailureKeepsSession ==
  [][ /\ \A c \in calls :
          TranscribeDone(c, "error")
            => /\ UNCHANGED <<offVars, timers, res, starts, toBg>>
               /\ calls' = calls \ {c}
               /\ Len(recs') = Len(recs)
               /\ \A r \in 1..Len(recs) : recs'[r].state = recs[r].state
      /\ \A r \in 1..Len(recs) :
          (recs[r].ev = "queued" /\ recs'[r].ev = "done" /\ recs'[r].dropped)
            => /\ UNCHANGED <<mediaRecorder, tabStream, micStream, mixingContext,
                              playbackContext, streamToRecord, apiKey, language,
                              sequenceNumber, isCapturing, recordingTimer>>
               /\ UNCHANGED <<timers, res, starts, calls, toBg>>
               /\ \A q \in 1..Len(recs) : recs'[q].state = recs[q].state ]_vars

\* C15 witness: a window of the running session was dropped, no CAPTURE_ERROR
\* was sent, the session still records and a later window of it is with
\* transcribeAudio.
C15_Witness ==
  /\ isCapturing /\ Cardinality(Recording) = 1 /\ Cardinality(timers) = 1
  /\ \A i \in 1..Len(toBg) : toBg[i].type # "CAPTURE_ERROR"
  /\ \E r \in 1..Len(recs), c \in calls :
        recs[r].dropped /\ r < c.win /\ c.sess = recs[r].sess

\* the call of the retrying client has returned after requests that were all
\* answered with a 5xx status
AllServerErrors ==
  /\ retryPc = "done" /\ fetched # <<>>
  /\ \A i \in 1..Len(fetched) : fetched[i] \in {500, 503}

\* C16: against a service that always answers 5xx the retrying client makes
\* its requests with the delays d, 2d, 4d (d = INITIAL_RETRY_DELAY) between
\* consecutive requests and none after the last one (so MAX_RETRIES requests,
\* or MAX_RETRIES retries after the first request), and returns a retryable
\* error.
C16_RetryBound ==
  AllServerErrors =>
    /\ Len(fetched) \in {MAX_RETRIES, MAX_RETRIES + 1}
    /\ slept = SubSeq(<<INITIAL_RETRY_DELAY, 2 * INITIAL_RETRY_DELAY,
                        4 * INITIAL_RETRY_DELAY>>, 1, Len(fetched) - 1)
    /\ ~retryResponse.success /\ retryResponse.isRetryable

NonRetryable(status) == status = 401 \/ (status \in 400..499 /\ status # 429)

\* C17: a 401 response, and any other 4xx response except 429, ends the call
\* of the retrying client at once with a non-retryable error: no request and
\* no sleep follows it, and when it answers the first request there was one
\* request and no sleep at all.
C17_NonRetryableOneRequest ==
  \A i \in 1..Len(fetched) :
    NonRetryable(fetched[i]) =>
      /\ i = Len(fetched)
      /\ retryPc = "done"
      /\ ~retryResponse.success /\ ~retryResponse.isRetryable
      /\ Len(slept) = Len(fetched) - 1

\* C17 witness: the first request was answered 401 or 404 and the call is over
C17_Witness ==
  retryPc = "done" /\ Len(fetched) = 1 /\ fetched[1] \in {401, 404} /\ slept = <<>>

\* C18: a transcription call never makes more than MAX_RETRIES requests (one
\* for the client without retry) and, every request being answered or
\* failing, it returns.
C18_CallTerminates ==
  /\ [](Len(fetched) <= MAX_RETRIES)
  /\ <>(retryPc = "done" /\ simplePc = "done")

\* C18 witness: the retrying call is over after MAX_RETRIES requests that all
\* failed in a retryable way, and the other call is over too
C18_Witness ==
  /\ retryPc = "done" /\ simplePc = "done"
  /\ Len(fetched) = MAX_RETRIES /\ retryResponse.isRetryable

\* C19: a result with text is sent at once, whatever the state of the other
\* windows: when transcribeAudio resolves with text for a unit, its
\* TRANSCRIPT_RESULT is the next message of the capture context, also while
\* calls for other windows are pending or were dropped.
C19_NoStallUnderDrops ==
  [][\A c \in calls :
       TranscribeDone(c, "text")
         => /\ Len(toBg') = Len(toBg) + 1
            /\ toBg'[Len(toBg')].type = "TRANSCRIPT_RESULT"
            /\ toBg'[Len(toBg')].win = c.win]_vars

\* C19 witness: the fragment of a window was sent while an earlier window of
\* the session was dropped and the call of another earlier window is pending
C19_Witness ==
  \E a \in 1..Len(Sent) :
    /\ \E r \in 1..Len(recs) :
         r < Sent[a].win /\ recs[r].dropped /\ recs[r].sess = Sent[a].sess
    /\ \E c \in calls : c.win < Sent[a].win /\ c.sess = Sent[a].sess

\* C20: a segment survives the filter exactly when its no_speech_prob is at
\* most NO_SPEECH_THRESHOLD and its avg_logprob is at least
\* AVG_LOGPROB_THRESHOLD: the survivors of an ok response are these segments,
\* in order.
C20_Survives(seg) ==
  seg.no_speech_prob <= NO_SPEECH_THRESHOLD /\ seg.avg_logprob >= AVG_LOGPROB_THRESHOLD

C20_ConfidenceFilter ==
  (simplePc = "done" /\ ~simpleResult.isError)
    => validSegments = SelectSeq(simpleResponse.segments, C20_Survives)

\* C20 witness: of two segments the one at both thresholds survived and the
\* one with only no_speech_prob above its threshold was rejected
C20_Witness ==
  /\ simplePc = "done" /\ ~simpleResult.isError
  /\ Len(simpleResponse.segments) = 2
  /\ simpleResponse.segments[1].no_speech_prob = NO_SPEECH_THRESHOLD
  /\ simpleResponse.segments[1].avg_logprob = AVG_LOGPROB_THRESHOLD
  /\ simpleResponse.segments[2].no_speech_prob > NO_SPEECH_THRESHOLD
  /\ simpleResponse.segments[2].avg_logprob = AVG_LOGPROB_THRESHOLD
  /\ validSegments = <<simpleResponse.segments[1]>>

\* n blanks
Blanks(n) == [i \in 1..n |-> " "]

\* the texts of the first n segments that pass the thresholds, one after the
\* other in the order of the list
RECURSIVE TextsInOrder(_, _)
TextsInOrder(segs, n) ==
  IF n = 0 THEN <<>>
  ELSE TextsInOrder(segs, n - 1)
         \o (IF C20_Survives(segs[n]) THEN segs[n].text ELSE <<>>)

\* C21: for a successful response, the text returned is the texts of the
\* surviving segments, concatenated in their original order with nothing
\* between them, with the blanks at both ends removed; it is empty when every
\* segment is rejected, when the list is empty and when the response has no
\* segments field.
C21_FilteredText ==
  (simplePc = "done" /\ ~simpleResult.isError) =>
    LET segs == simpleResponse.segments
        whole == TextsInOrder(segs, Len(segs))
        txt == simpleResult.text
    IN /\ \E lead, trail \in 0..Len(whole) :
            whole = Blanks(lead) \o txt \o Blanks(trail)
       /\ txt # <<>> => (txt[1] # " " /\ txt[Len(txt)] # " ")
       /\ ( \/ ~simpleResponse.hasSegments
            \/ segs = <<>>
            \/ \A i \in 1..Len(segs) : ~C20_Survives(segs[i]) ) => txt = <<>>

\* C21 witness: two segments survive, the second one is a blank, and the
\* returned text is the first one's text alone.
C21_Witness ==
  /\ simplePc = "done" /\ ~simpleResult.isError
  /\ Len(simpleResponse.segments) = 2 /\ Len(validSegments) = 2
  /\ simpleResponse.segments[1].text = <<"a">>
  /\ simpleResponse.segments[2].text = <<" ">>
  /\ simpleResult.text = <<"a">>

\* C22: an empty result is nothing to deliver.  No TRANSCRIPT_RESULT sent by
\* the capture context has an empty or blank text, and the step in which
\* transcribeAudio resolves to an empty text sends no message and leaves the
\* module state, the timers, the streams and contexts, the starts, every
\* recorder's state and the other calls unchanged.
C22_EmptyResultSilent ==
  [][ /\ \A i \in 1..Len(toBg') :
          toBg'[i].type = "TRANSCRIPT_RESULT" => toBg'[i].text = "text"
      /\ \A c \in calls :
          TranscribeDone(c, "empty")
            => /\ UNCHANGED <<offVars, timers, res, starts, toBg>>
               /\ calls' = calls \ {c}
               /\ Len(recs') = Len(recs)
               /\ \A r \in 1..Len(recs) :
                    recs'[r].state = recs[r].state /\ recs'[r].ev = recs[r].ev ]_vars

\* C22 witness: the first window of the session was finalized and nothing was
\* delivered for it, no call is pending, CAPTURE_STARTED is the only message
\* sent, the session still captures and records its second window.
C22_Witness ==
  /\ isCapturing /\ Len(recs) = 2 /\ Recording = {2} /\ calls = {}
  /\ recs[1].fin /\ recs[1].dropped /\ sequenceNumber = 0
  /\ Len(toBg) = 1 /\ toBg[1].type = "CAPTURE_STARTED"

\* C23: filtering is a function of the segment list and is idempotent.  For a
\* successful response the text is the text computed from the list received;
\* filtering the survivors once more keeps every one of them and gives the
\* same text; an empty list gives the empty text.
C23_FilterIdempotent ==
  (simplePc = "done" /\ ~simpleResult.isError) =>
    LET segs == SegmentsOf(simpleResponse) IN
      /\ simpleResult.text = Trim(JoinTexts(FilterSegments(segs)))
      /\ FilterSegments(validSegments) = validSegments
      /\ Trim(JoinTexts(FilterSegments(validSegments))) = simpleResult.text
      /\ segs = <<>> => simpleResult.text = <<>>

\* C23 witness: of two segments received one was rejected and one survived,
\* and the text is the survivor's.
C23_Witness ==
  /\ simplePc = "done" /\ ~simpleResult.isError
  /\ Len(simpleResponse.segments) = 2 /\ Len(validSegments) = 1
  /\ simpleResult.text = validSegments[1].text /\ simpleResult.text # <<>>

\* C24: validateApiKey.  A key that is empty or all blanks gives false and no
\* request is made; otherwise one request is made, a rejected fetch gives
\* false, and a response gives false exactly when its status is 401.
C24_ValidateApiKey ==
  probePc = "done" =>
    IF \A i \in 1..Len(probeKey) : probeKey[i] = " "
    THEN ~probeResult /\ probeFetched = <<>>
    ELSE /\ Len(probeFetched) = 1
         /\ probeFetched[1] = 0 => ~probeResult
         /\ probeFetched[1] # 0 => (~probeResult <=> probeFetched[1] = 401)

\* C24 witness: the probe of a key with a blank in front was answered 429 and
\* validateApiKey returned true.
C24_Witness ==
  /\ probePc = "done" /\ probeKey = <<" ", "k">>
  /\ probeFetched = <<429>> /\ probeResult

\* what the request has to carry for the language argument lang
C25_Carries(form, lang) ==
  IF lang = "auto" THEN ~form.hasLanguage
  ELSE form.hasLanguage /\ form.language = lang

\* C25: the request of each transcription client carries the language it was
\* called with, and no language parameter when that language is 'auto' (the
\* capture context never calls with the empty string: it replaces it by 'zh').
C25_LanguageParameter ==
  callLanguage # "" =>
    /\ simplePc = "done" => C25_Carries(simpleForm, callLanguage)
    /\ fetched # <<>> => C25_Carries(retryForm, callLanguage)

\* C26: failing to get the tab stream is fatal for the start.  In the step in
\* which getUserMedia for the tab rejects, the invocation of
\* handleStartCapture ends, isCapturing is not set, no recorder is created
\* and no timer is set, no stream or context is acquired, and the one message
\* sent is CAPTURE_ERROR (so no CAPTURE_STARTED).
C26_TabFailureFatal ==
  [][\A p \in 1..Len(starts) :
       StartResumeTab(p, "reject")
         => /\ starts'[p].pc = "done"
            /\ UNCHANGED <<isCapturing, recs, timers, recordingTimer, mediaRecorder,
                           res, tabStream, streamToRecord>>
            /\ toBg' = Append(toBg, OffMsg("CAPTURE_ERROR"))]_vars

\* C26 witness: the only START_CAPTURE handled has returned without getting
\* any stream; the context is not capturing, has no recorder and no timer,
\* and CAPTURE_ERROR is the only message it sent.
C26_Witness ==
  /\ nStart = 1 /\ Len(starts) = 1 /\ starts[1].pc = "done" /\ res = <<>>
  /\ ~isCapturing /\ recs = <<>> /\ timers = {}
  /\ Len(toBg) = 1 /\ toBg[1].type = "CAPTURE_ERROR"

\* C27: a failure in the microphone branch degrades the session to the tab
\* audio.  In the step in which enumerateDevices fails, getUserMedia for the
\* microphone rejects or the mixing context fails to resume, the invocation
\* ends with isCapturing set, streamToRecord is the tab stream, exactly
\* CAPTURE_STARTED is sent (no CAPTURE_ERROR) and, the tab stream being still
\* held, a recorder is created and records.
C27_MicrophoneDegradation ==
  [][\A p \in 1..Len(starts) :
       (\/ StartResumeEnumerate(p, FALSE)
        \/ StartResumeMic(p, "reject")
        \/ StartResumeMix(p, FALSE))
         => /\ starts[p].includeMicrophone
            /\ starts'[p].pc = "done"
            /\ isCapturing'
            /\ streamToRecord' = tabStream'
            /\ toBg' = Append(toBg, OffMsg("CAPTURE_STARTED"))
            /\ tabStream' # 0 =>
                 /\ Len(recs') = Len(recs) + 1
                 /\ recs'[Len(recs')].state = "recording"
                 /\ mediaRecorder' = Len(recs')]_vars

\* C27 witness: the one start asked for the microphone and has returned, no
\* microphone stream is held, the context captures, the recorder records the
\* tab stream, and CAPTURE_STARTED is the only message sent.
C27_Witness ==
  /\ nStart = 1 /\ nStop = 0 /\ Len(starts) = 1
  /\ starts[1].includeMicrophone /\ starts[1].pc = "done"
  /\ micStream = 0 /\ tabStream # 0 /\ streamToRecord = tabStream
  /\ isCapturing /\ Recording = {1}
  /\ Len(toBg) = 1 /\ toBg[1].type = "CAPTURE_STARTED"

\* C28: every transcription call uses the credential and the language that
\* the start of its unit's session stored: a pending call of a unit of
\* session p carries the apiKey and language assigned by that invocation of
\* handleStartCapture.  (Looked at when the starts ran one after the other,
\* none received while another was suspended.)
C28_SessionCredential ==
  (\A p \in 1..Len(starts) : starts[p].alone) =>
    \A c \in calls :
      c.key = starts[c.sess].apiKey /\ c.lang = starts[c.sess].language

\* C29: the timer of every recording cycle is set to the chunkDuration of the
\* START_CAPTURE that started the cycle's session.
C29_TimerUsesChunkDuration ==
  \A r \in 1..Len(recs) : recs[r].timerDelay = starts[recs[r].sess].chunkDuration

\* no popup request is in progress, every message of the capture context has
\* been handled by the background, and every start has returned
C30_Settled ==
  /\ bgProcs = <<>> /\ toBg = <<>>
  /\ \A p \in 1..Len(starts) : starts[p].pc = "done"

\* C30: the status the background reports is the capture state.  Once
\* everything has settled, the isCapturing of the last response given to a
\* start or stop request, and the one a GET_STATUS_REQUEST would get, equal
\* the isCapturing of the capture context.
C30_ReportedStatus ==
  C30_Settled =>
    /\ lastResponse.isCapturing = isCapturing
    /\ GetStatusResponse.isCapturing = isCapturing

\* C31: start next, then process previous.  In the step of a timer expiry
\* that finds the context capturing and its recorder recording, that recorder
\* is stopped with its events still to come, the next recorder is recording,
\* and no unit is handed to transcribeAudio; and when the unit of a window of
\* a session that was not stopped is handed over, a later recorder has been
\* started before.
C31_StartNextThenProcess ==
  [][ /\ \A t \in timers :
          ( /\ TimerFire(t)
            /\ isCapturing /\ streamToRecord # 0
            /\ mediaRecorder # 0 /\ recs[mediaRecorder].state = "recording" )
            => /\ recs'[mediaRecorder].state = "inactive"
               /\ recs'[mediaRecorder].ev = "queued"
               /\ Len(recs') = Len(recs) + 1
               /\ mediaRecorder' = Len(recs')
               /\ recs'[Len(recs')].state = "recording"
               /\ calls' = calls
      /\ \A c \in calls' \ calls :
          starts[c.sess].at = nStop' => Len(recs) > c.win ]_vars

\* C31 witness: the timer of the first cycle has expired, the second
\* recorder records, and the events of the first one have not run yet: its
\* unit has not been handed over.
C31_Witness ==
  /\ nStop = 0 /\ isCapturing /\ Len(recs) = 2 /\ calls = {}
  /\ recs[1].state = "inactive" /\ recs[1].ev = "queued" /\ ~recs[1].fin
  /\ recs[2].state = "recording" /\ mediaRecorder = 2

\* one session was started, alone, and no STOP_CAPTURE was handled
C32_OneSessionNoStop ==
  nStop = 0 /\ Len(starts) = 1 /\ starts[1].pc = "done"

\* the windows whose unit has been finalized
C32_Units == {r \in 1..Len(recs) : recs[r].fin}

\* C32: gapless cycling.  With one session and no stop, every timer expiry
\* has ended one cycle and started the next: while capturing exactly one
\* recorder records, it is the newest one, and every earlier recorder is
\* inactive with its events queued or run; the events of a cycle that
\* recorded data (continuous input) finalize exactly one more unit, so after
\* k expiries whose events have run k units are finalized.
C32_GaplessCycling ==
  [][ /\ C32_OneSessionNoStop' =>
          /\ isCapturing' => Recording' = {Len(recs')}
          /\ \A r \in 1..(Len(recs') - 1) :
                recs'[r].state = "inactive" /\ recs'[r].ev \in {"queued", "done"}
      /\ \A r \in 1..Len(recs), size \in DataSizes \ {0} :
          (C32_OneSessionNoStop /\ RecorderEvents(r, size))
            => C32_Units' = C32_Units \cup {r} /\ r \notin C32_Units ]_vars

\* C32 witness: two timers have expired without any stop, the units of the
\* first two cycles are finalized and the third cycle is recording.
C32_Witness ==
  /\ C32_OneSessionNoStop /\ isCapturing
  /\ Len(recs) = 3 /\ Recording = {3} /\ C32_Units = {1, 2}

\* C33: the minimum size.  When the events of a stopped recorder run and its
\* unit (the blob built from the chunk buffer) is smaller than MinAudioSize,
\* no transcription call is made; when it has MinAudioSize bytes or more (the
\* sessions here all have a credential), a call for that window is made.
C33_MinimumSize ==
  [][\A r \in 1..Len(recs) :
       (recs[r].ev = "queued" /\ recs'[r].ev = "done" /\ currentChunks' # <<>>)
         => IF SumSizes(currentChunks') < MinAudioSize
            THEN calls' = calls
            ELSE \E c \in calls' \ calls : c.win = r]_vars

\* a rate limit, a server error or a fetch that rejects
C34_Retryable(status) == status = 429 \/ status \in 500..599 \/ status = 0

\* C34: one backoff policy for every retryable outcome.  The i-th wait of a
\* call follows a retryable outcome of the i-th request and lasts
\* INITIAL_RETRY_DELAY * 2^(i-1), whichever of the three kinds it was; an ok
\* response ends the call with success, so it is the last request and the
\* waits are those of the failures before it; and a call that ends in the
\* retryable error has made MAX_RETRIES requests.
C34_OneBackoffPolicy ==
  /\ Len(slept) <= Len(fetched)
  /\ \A i \in 1..Len(slept) :
        C34_Retryable(fetched[i]) /\ slept[i] = INITIAL_RETRY_DELAY * 2^(i - 1)
  /\ \A i \in 1..Len(fetched) :
        (fetched[i] # 0 /\ ResponseOk(fetched[i]))
          => /\ i = Len(fetched) /\ retryPc = "done" /\ retryResponse.success
             /\ Len(slept) = i - 1
             /\ \A j \in 1..(i - 1) : C34_Retryable(fetched[j])
  /\ (retryPc = "done" /\ retryResponse.isRetryable) => Len(fetched) = MAX_RETRIES

\* C34 witness: a rate limit, then a rejected fetch, then an ok response: the
\* call waited 1000 and 2000 ms and returned the success of the third request.
C34_Witness ==
  /\ retryPc = "done" /\ retryResponse.success
  /\ fetched = <<429, 0, 200>>
  /\ slept = <<INITIAL_RETRY_DELAY, 2 * INITIAL_RETRY_DELAY>>

\* C35: unit integrity.  The blob that the stop event of recorder r builds is
\* the chunk buffer at that moment: it holds data of recorder r only, and no
\* chunk is in the blob of two recorders (a chunk of an earlier recorder
\* still in the buffer was already in that recorder's blob).
C35_UnitIntegrity ==
  [][\A r \in 1..Len(recs) :
       (recs[r].ev = "queued" /\ recs'[r].ev = "done")
         => \A i \in 1..Len(currentChunks') : currentChunks'[i].rec = r]_vars

\* the starts ran one after the other, all have returned, and no
\* STOP_CAPTURE has been handled
C36_Started ==
  /\ nStop = 0
  /\ \A p \in 1..Len(starts) : starts[p].pc = "done" /\ starts[p].alone

\* C36: capture does not stall.  While the context is capturing after a
\* completed start, a recorder is recording or a timer is pending, and every
\* timer expiry leaves a recorder recording, also when the recorder has
\* become inactive by itself before the expiry.
C36_NoSilentStall ==
  [][ /\ (C36_Started' /\ isCapturing')
          => (Recording' # {} \/ timers' # {})
      /\ \A t \in timers :
          (C36_Started /\ isCapturing /\ TimerFire(t)) => Recording' # {} ]_vars

\* C37: the background's flag converges to the capture context's flag.  When
\* every message the capture context has sent has been handled by the
\* background, bgIsCapturing equals isCapturing.
C37_FlagConverges ==
  toBg = <<>> => bgIsCapturing = isCapturing

====
